---- MODULE Spec2Model ----
\* Mapping-driven upsert of one person record into a Pipedrive-style CRM
\* (src/src/index.ts): syncPdPerson, findPersonByName, createOrUpdatePerson,
\* formatError, together with the remote system the calls are addressed to.
EXTENDS Integers, Sequences, FiniteSets, TLC

VARIABLES
    mappings,        \* mappings.json: ordered sequence of [pipedriveKey, inputKey]
    inputData,       \* inputData.json: a JSON object
    API_KEY,         \* process.env.PIPEDRIVE_API_KEY ("" when unset)
    COMPANY_DOMAIN,  \* process.env.PIPEDRIVE_COMPANY_DOMAIN ("" when unset)
    ENV_BASE_URL,    \* process.env.BASE_URL ("" when unset)
    pc,              \* pc[r]: position of run r inside syncPdPerson
    nameMapping,     \* nameMapping[r]: result of mappings.find
    nameValue,       \* nameValue[r]: get(inputData, nameMapping.inputKey)
    personData,      \* personData[r]: the payload built by the reduce
    existingPerson,  \* existingPerson[r]: result of findPersonByName
    inflight,        \* inflight[r]: the axios requests of run r still awaiting a response
    calls,           \* calls[r]: every axios request run r has issued, in order
    steps,           \* steps[r]: the steps run r has executed, in order
    apiError,        \* apiError[r]: the error the catch around the axios call received
    caught,          \* caught[r]: the error the catch of syncPdPerson received
    outcome,         \* outcome[r]: what the promise of syncPdPerson settled with
    persons,         \* the remote system's person records, in listing order
    nextId           \* the identifier the remote system gives the next created record

vars == <<mappings, inputData, API_KEY, COMPANY_DOMAIN, ENV_BASE_URL, pc,
          nameMapping, nameValue, personData, existingPerson, inflight, calls,
          steps, apiError, caught, outcome, persons, nextId>>

env == <<mappings, inputData, API_KEY, COMPANY_DOMAIN, ENV_BASE_URL>>

\* ---------------------------------------------------------------- bounds
NumRuns == 2
MaxMappings == 2

RunIds == 1..NumRuns

\* the runs of syncPdPerson there are
Runs == DOMAIN pc

\* ------------------------------------------------------- JSON values
Undefined == [t |-> "undefined", v |-> ""]
Null == [t |-> "null", v |-> ""]
Str(s) == [t |-> "string", v |-> s]
Num(n) == [t |-> "number", v |-> n]
Obj(f) == [t |-> "object", v |-> "", fields |-> f]

\* object[key] of JavaScript for the values above
Prop(val, key) ==
    IF val.t = "object" /\ key \in DOMAIN val.fields THEN val.fields[key] ELSE Undefined

\* lodash get(object, path): walks the path while the object is not null or
\* undefined, and gives undefined (the default) for what does not resolve
RECURSIVE get(_, _)
get(object, path) ==
    IF path = <<>> THEN object
    ELSE IF object.t \in {"undefined", "null"} THEN Undefined
    ELSE get(Prop(object, Head(path)), Tail(path))

\* JavaScript truthiness of a value: "", 0, null and undefined are falsy
Truthy(val) ==
    CASE val.t = "string" -> val.v # ""
      [] val.t = "number" -> val.v # "0"
      [] val.t \in {"undefined", "null"} -> FALSE
      [] OTHER -> TRUE

\* ------------------------------------------------------- configuration
PipedriveKeys == {"name", "email", "phone"}
InputKeys == {<<"fullName">>, <<"contact", "email">>}

\* interface Mapping
Mapping == [pipedriveKey : PipedriveKeys, inputKey : InputKeys]

MappingTables == UNION {[1..n -> Mapping] : n \in 0..MaxMappings}

Contact == Obj([email |-> Str("jane@x.com"), phone |-> Null])

InputRecords ==
    {Obj([contact |-> Contact]),
     Obj([fullName |-> Null, contact |-> Contact]),
     Obj([fullName |-> Str(""), contact |-> Contact]),
     Obj([fullName |-> Num("42"), contact |-> Contact]),
     Obj([fullName |-> Str("Jane"), contact |-> Null]),
     Obj([fullName |-> Str("Jane"), contact |-> Contact])}

EnvValues == {"", "set"}

\* const BASE_URL = process.env.BASE_URL || `https://${COMPANY_DOMAIN}.pipedrive.com/v1`
BASE_URL ==
    IF ENV_BASE_URL # "" THEN <<ENV_BASE_URL>>
    ELSE <<"https://", IF COMPANY_DOMAIN = "" THEN "undefined" ELSE COMPANY_DOMAIN,
           ".pipedrive.com/v1">>

\* ------------------------------------------------------- errors
\* An Error carries a message; an AxiosError may also carry the error text of
\* the response body. Texts are sequences of pieces, <<>> the empty string.
PlainError(msg) == [axios |-> FALSE, responseError |-> <<>>, message |-> msg]

AxiosErrors ==
    {[axios |-> TRUE, responseError |-> <<"Unauthorized">>,
      message |-> <<"Request failed with status code 401">>],
     [axios |-> TRUE, responseError |-> <<>>, message |-> <<"Network Error">>],
     [axios |-> TRUE, responseError |-> <<>>, message |-> <<>>]}

Or(a, b) == IF a # <<>> THEN a ELSE b

\* a formatter that loses the message of a plain Error
formatError_dropsMessage(context, error) ==
    IF error.axios
    THEN context \o <<": ">>
         \o Or(error.responseError, Or(error.message, <<"Unknown API error">>))
    ELSE context \o <<": ">> \o <<"Unknown error">>

\* a formatter that prefers the transport message to the text of the response
formatError_messageFirst(context, error) ==
    IF error.axios
    THEN context \o <<": ">>
         \o Or(error.message, Or(error.responseError, <<"Unknown API error">>))
    ELSE context \o <<": ">> \o Or(error.message, <<"Unknown error">>)

formatError(context, error) ==
    IF error.axios
    THEN context \o <<": ">>
         \o Or(error.responseError, Or(error.message, <<"Unknown API error">>))
    ELSE context \o <<": ">> \o Or(error.message, <<"Unknown error">>)

\* ------------------------------------------------------- payload
\* a shaping that labels every wrapped value "work"
Shaped_sameLabel(pipedriveKey, value) ==
    IF pipedriveKey = "email" \/ pipedriveKey = "phone"
    THEN [kind |-> "list",
          items |-> <<[value |-> value, primary |-> TRUE, label |-> "work"]>>]
    ELSE [kind |-> "plain", value |-> value]

\* the value one mapping entry assigns to acc[pipedriveKey]
Shaped(pipedriveKey, value) ==
    IF pipedriveKey = "email" \/ pipedriveKey = "phone"
    THEN [kind |-> "list",
          items |-> <<[value |-> value, primary |-> TRUE,
                       label |-> IF pipedriveKey = "email" THEN "work" ELSE "home"]>>]
    ELSE [kind |-> "plain", value |-> value]

\* an assignment that keeps what the key already holds
Assign_keepFirst(acc, key, val) ==
    [k \in DOMAIN acc \cup {key} |-> IF k \in DOMAIN acc THEN acc[k] ELSE val]

\* acc[key] = val
Assign(acc, key, val) ==
    [k \in DOMAIN acc \cup {key} |-> IF k = key THEN val ELSE acc[k]]

\* a reducer that skips undefined only
Reducer_undefinedOnly(acc, m, input) ==
    LET value == get(input, m.inputKey)
    IN  IF value.t # "undefined"
        THEN Assign(acc, m.pipedriveKey, Shaped(m.pipedriveKey, value))
        ELSE acc

\* one call of the reducer
Reducer(acc, m, input) ==
    LET value == get(input, m.inputKey)
    IN  IF value.t # "undefined" /\ value.t # "null"
        THEN Assign(acc, m.pipedriveKey, Shaped(m.pipedriveKey, value))
        ELSE acc

\* mappings.reduce(reducer, {})
RECURSIVE reduce(_, _, _)
reduce(ms, acc, input) ==
    IF ms = <<>> THEN acc
    ELSE reduce(Tail(ms), Reducer(acc, Head(ms), input), input)

EmptyPayload == [k \in {} |-> Undefined]

\* find with a predicate that accepts every entry
find_anyEntry(ms) == IF Len(ms) > 0 THEN 1 ELSE 0

\* mappings.find((m) => m.pipedriveKey === "name"): index of the first, 0 if none
find(ms) ==
    IF \E i \in 1..Len(ms) : ms[i].pipedriveKey = "name"
    THEN CHOOSE i \in 1..Len(ms) :
            /\ ms[i].pipedriveKey = "name"
            /\ \A j \in 1..(i - 1) : ms[j].pipedriveKey # "name"
    ELSE 0

\* ------------------------------------------------------- remote system
Person(id, name) == [id |-> id, name |-> name]

InitialPersons ==
    {<<>>,
     <<Person(0, Str("Jane"))>>,
     <<Person(0, Str("Jane")), Person(5, Str("Jane"))>>,
     <<Person(7, Str("Bob")), Person(42, Str("Jane")), Person(43, Str("Jane"))>>}

\* GET /persons/search?term=<name>&fields=name&exact_match=true: data.items
SearchItems(term) ==
    LET matches == SelectSeq(persons, LAMBDA p : p.name = Str(term))
    IN  [i \in 1..Len(matches) |-> [item |-> matches[i]]]

\* data.data?.items[0]?.item ?? null
FirstItem(items) == IF Len(items) > 0 THEN items[1].item ELSE Null

\* the name a request body gives the record
BodyName(data, old) ==
    IF "name" \in DOMAIN data /\ data["name"].kind = "plain"
    THEN data["name"].value ELSE old

\* ------------------------------------------------------- one sync run
NoMapping == [pipedriveKey |-> "", inputKey |-> <<>>]
NoError == [axios |-> FALSE, responseError |-> <<>>, message |-> <<>>]
Pending == [kind |-> "pending"]
Resolved(person) == [kind |-> "resolved", person |-> person]
Rejected(message) == [kind |-> "rejected", message |-> message]

\* the catch of syncPdPerson: throw new Error(formatError("Error in syncPdPerson", error))
SyncCatch(error) == Rejected(formatError(<<"Error in syncPdPerson">>, error))

InitWith(runs, remote) ==
    /\ mappings \in MappingTables
    /\ inputData \in InputRecords
    /\ API_KEY \in EnvValues
    /\ COMPANY_DOMAIN \in EnvValues
    /\ ENV_BASE_URL \in EnvValues
    /\ pc = [r \in runs |-> "Start"]
    /\ nameMapping = [r \in runs |-> NoMapping]
    /\ nameValue = [r \in runs |-> Undefined]
    /\ personData = [r \in runs |-> EmptyPayload]
    /\ existingPerson = [r \in runs |-> Null]
    /\ inflight = [r \in runs |-> {}]
    /\ calls = [r \in runs |-> <<>>]
    /\ steps = [r \in runs |-> <<>>]
    /\ apiError = [r \in runs |-> NoError]
    /\ caught = [r \in runs |-> NoError]
    /\ outcome = [r \in runs |-> Pending]
    /\ persons \in remote
    /\ nextId = 100

\* the program as it is: the module calls syncPdPerson once
Init == InitWith({1}, InitialPersons)

\* several runs against a remote system without records, addressed by the
\* URL derived from the company domain
InitConcurrent ==
    /\ InitWith(RunIds, {<<>>})
    /\ ENV_BASE_URL = ""

\* the synchronous steps of syncPdPerson, in the order the code runs them
VALIDATE_MAPPING == <<"ValidateMapping">>
VALIDATE_VALUE == <<"ValidateMapping", "ValidateIdentityValue">>
LOOKUP == <<"ValidateMapping", "ValidateIdentityValue", "BuildPayload", "Lookup">>

\* a catch that returns instead of throwing again
Throw_returns(r, error) ==
    /\ pc' = [pc EXCEPT ![r] = "Done"]
    /\ caught' = [caught EXCEPT ![r] = error]
    /\ outcome' = [outcome EXCEPT ![r] = Resolved(Null)]

\* a throw inside the try block of syncPdPerson: the catch rejects the promise
Throw(r, error) ==
    /\ pc' = [pc EXCEPT ![r] = "Failed"]
    /\ caught' = [caught EXCEPT ![r] = error]
    /\ outcome' = [outcome EXCEPT ![r] = SyncCatch(error)]

\* the condition !nameValue || typeof nameValue !== "string", negated, without
\* its typeof part
ValidNameValue_noTypeCheck(value) == Truthy(value)

\* the condition !nameValue || typeof nameValue !== "string", negated
ValidNameValue(value) == Truthy(value) /\ value.t = "string"

\* the condition !API_KEY || !COMPANY_DOMAIN of findPersonByName, negated
ConfigOK == API_KEY # "" /\ COMPANY_DOMAIN # ""

\* the request of findPersonByName(name)
SearchRequest(name) ==
    [method |-> "get", base |-> BASE_URL, path |-> "/persons/search",
     term |-> name, fields |-> "name", exact_match |-> TRUE, api_token |-> API_KEY]

\* syncPdPerson from its call up to the first await: the mapping and the
\* name value are validated, the payload is built and findPersonByName
\* issues the search
Start(r) ==
    /\ r \in Runs
    /\ pc[r] = "Start"
    /\ LET i == find(mappings)
           mapping == IF i = 0 THEN NoMapping ELSE mappings[i]
           value == IF i = 0 THEN Undefined ELSE get(inputData, mapping.inputKey)
       IN  IF i = 0
           THEN /\ Throw(r, PlainError(<<"No mapping found for 'name' in mappings.json">>))
                /\ steps' = [steps EXCEPT ![r] = VALIDATE_MAPPING \o <<"Failed">>]
                /\ UNCHANGED <<nameMapping, nameValue, personData, inflight, calls>>
           ELSE
           /\ nameMapping' = [nameMapping EXCEPT ![r] = mapping]
           /\ nameValue' = [nameValue EXCEPT ![r] = value]
           /\ IF ~ValidNameValue(value)
              THEN /\ Throw(r, PlainError(<<"Invalid or missing value for inputKey '">>
                                           \o mapping.inputKey
                                           \o <<"' in inputData.json">>))
                   /\ steps' = [steps EXCEPT ![r] = VALIDATE_VALUE \o <<"Failed">>]
                   /\ UNCHANGED <<personData, inflight, calls>>
              ELSE
              /\ personData' = [personData EXCEPT ![r] =
                                    reduce(mappings, EmptyPayload, inputData)]
              /\ IF ~ConfigOK
                 THEN /\ Throw(r, PlainError(
                            <<"Missing PIPEDRIVE_API_KEY or PIPEDRIVE_COMPANY_DOMAIN in .env file">>))
                      /\ steps' = [steps EXCEPT ![r] = LOOKUP \o <<"Failed">>]
                      /\ UNCHANGED <<inflight, calls>>
                 ELSE LET req == SearchRequest(value.v)
                      IN  /\ inflight' = [inflight EXCEPT ![r] = @ \cup {req}]
                          /\ calls' = [calls EXCEPT ![r] = Append(@, req)]
                          /\ pc' = [pc EXCEPT ![r] = "LookupWait"]
                          /\ steps' = [steps EXCEPT ![r] = LOOKUP]
                          /\ UNCHANGED <<caught, outcome>>
    /\ UNCHANGED <<env, existingPerson, apiError, persons, nextId>>

IsNull(x) == "t" \in DOMAIN x /\ x.t = "null"

\* existingPerson?.id
OptionalId(existing) ==
    IF IsNull(existing) THEN [t |-> "undefined"] ELSE [t |-> "number", n |-> existing.id]

\* the condition `personId ?` of createOrUpdatePerson
HasPersonId(personId) == personId.t = "number" /\ personId.n # 0

\* a request whose update leaves the identifying field out of the body
UpsertRequest_updateOmitsName(data, personId) ==
    IF HasPersonId(personId)
    THEN [method |-> "put", base |-> BASE_URL, path |-> "/persons/", id |-> personId.n,
          api_token |-> API_KEY, data |-> [k \in DOMAIN data \ {"name"} |-> data[k]]]
    ELSE [method |-> "post", base |-> BASE_URL, path |-> "/persons",
          api_token |-> API_KEY, data |-> data]

\* the request of createOrUpdatePerson(personData, personId)
UpsertRequest(data, personId) ==
    IF HasPersonId(personId)
    THEN [method |-> "put", base |-> BASE_URL, path |-> "/persons/", id |-> personId.n,
          api_token |-> API_KEY, data |-> data]
    ELSE [method |-> "post", base |-> BASE_URL, path |-> "/persons",
          api_token |-> API_KEY, data |-> data]

\* a context that says "update" for every identifier that is defined
UpsertContext_anyId(personId) ==
    IF personId.t = "number" THEN <<"Failed to update person">>
    ELSE <<"Failed to create person">>

\* `Failed to ${personId ? "update" : "create"} person`
UpsertContext(personId) ==
    IF HasPersonId(personId) THEN <<"Failed to update person">>
    ELSE <<"Failed to create person">>

\* the search responds: findPersonByName returns the first item or null and
\* createOrUpdatePerson issues its request
LookupReturn(r) ==
    /\ r \in Runs
    /\ pc[r] = "LookupWait"
    /\ \E req \in inflight[r] :
        /\ req.method = "get"
        /\ LET found == FirstItem(SearchItems(req.term))
               upsert == UpsertRequest(personData[r], OptionalId(found))
           IN  /\ existingPerson' = [existingPerson EXCEPT ![r] = found]
               /\ inflight' = [inflight EXCEPT ![r] = (@ \ {req}) \cup {upsert}]
               /\ calls' = [calls EXCEPT ![r] = Append(@, upsert)]
    /\ pc' = [pc EXCEPT ![r] = "UpsertWait"]
    /\ steps' = [steps EXCEPT ![r] = Append(@, "Upsert")]
    /\ UNCHANGED <<env, nameMapping, nameValue, personData, apiError, caught, outcome,
                   persons, nextId>>

\* a failed search after which the run goes on to the create/update call
LookupFail_continues(r) ==
    /\ r \in Runs
    /\ pc[r] = "LookupWait"
    /\ \E req \in inflight[r], error \in AxiosErrors :
        /\ req.method = "get"
        /\ LET thrown == PlainError(formatError(<<"Failed to search for person">>, error))
               upsert == UpsertRequest(personData[r], OptionalId(Null))
           IN  /\ apiError' = [apiError EXCEPT ![r] = error]
               /\ caught' = [caught EXCEPT ![r] = thrown]
               /\ outcome' = [outcome EXCEPT ![r] = SyncCatch(thrown)]
               /\ inflight' = [inflight EXCEPT ![r] = (@ \ {req}) \cup {upsert}]
               /\ calls' = [calls EXCEPT ![r] = Append(@, upsert)]
    /\ pc' = [pc EXCEPT ![r] = "UpsertWait"]
    /\ steps' = [steps EXCEPT ![r] = Append(@, "Upsert")]
    /\ UNCHANGED <<env, nameMapping, nameValue, personData, existingPerson,
                   persons, nextId>>

\* the search fails: findPersonByName throws and the catch of syncPdPerson
\* rejects the promise
LookupFail(r) ==
    /\ r \in Runs
    /\ pc[r] = "LookupWait"
    /\ \E req \in inflight[r], error \in AxiosErrors :
        /\ req.method = "get"
        /\ inflight' = [inflight EXCEPT ![r] = @ \ {req}]
        /\ apiError' = [apiError EXCEPT ![r] = error]
        /\ Throw(r, PlainError(formatError(<<"Failed to search for person">>, error)))
    /\ steps' = [steps EXCEPT ![r] = Append(@, "Failed")]
    /\ UNCHANGED <<env, nameMapping, nameValue, personData, existingPerson, calls,
                   persons, nextId>>

\* a create that answers with an existing record of the same name, if any
CreateReturn_dedup(r) ==
    /\ r \in Runs
    /\ pc[r] = "UpsertWait"
    /\ \E req \in inflight[r] :
        /\ req.method = "post"
        /\ inflight' = [inflight EXCEPT ![r] = @ \ {req}]
        /\ LET created == Person(nextId, BodyName(req.data, Undefined))
               same == SelectSeq(persons, LAMBDA p : p.name = created.name)
           IN  IF Len(same) > 0
               THEN /\ persons' = persons
                    /\ outcome' = [outcome EXCEPT ![r] = Resolved(same[1])]
               ELSE /\ persons' = Append(persons, created)
                    /\ outcome' = [outcome EXCEPT ![r] = Resolved(created)]
        /\ nextId' = nextId + 1
    /\ pc' = [pc EXCEPT ![r] = "Done"]
    /\ steps' = [steps EXCEPT ![r] = Append(@, "Done")]
    /\ UNCHANGED <<env, nameMapping, nameValue, personData, existingPerson, calls,
                   apiError, caught>>

\* POST /persons responds: the remote system has added a record, and
\* syncPdPerson returns it
CreateReturn(r) ==
    /\ r \in Runs
    /\ pc[r] = "UpsertWait"
    /\ \E req \in inflight[r] :
        /\ req.method = "post"
        /\ inflight' = [inflight EXCEPT ![r] = @ \ {req}]
        /\ LET created == Person(nextId, BodyName(req.data, Undefined))
           IN  /\ persons' = Append(persons, created)
               /\ outcome' = [outcome EXCEPT ![r] = Resolved(created)]
        /\ nextId' = nextId + 1
    /\ pc' = [pc EXCEPT ![r] = "Done"]
    /\ steps' = [steps EXCEPT ![r] = Append(@, "Done")]
    /\ UNCHANGED <<env, nameMapping, nameValue, personData, existingPerson, calls,
                   apiError, caught>>

\* PUT /persons/{id} responds: the remote system has changed that record, and
\* syncPdPerson returns it
UpdateReturn(r) ==
    /\ r \in Runs
    /\ pc[r] = "UpsertWait"
    /\ \E req \in inflight[r] :
        /\ req.method = "put"
        /\ \E i \in 1..Len(persons) :
            /\ persons[i].id = req.id
            /\ LET updated == Person(req.id, BodyName(req.data, persons[i].name))
               IN  /\ persons' = [persons EXCEPT ![i] = updated]
                   /\ outcome' = [outcome EXCEPT ![r] = Resolved(updated)]
        /\ inflight' = [inflight EXCEPT ![r] = @ \ {req}]
    /\ pc' = [pc EXCEPT ![r] = "Done"]
    /\ steps' = [steps EXCEPT ![r] = Append(@, "Done")]
    /\ UNCHANGED <<env, nameMapping, nameValue, personData, existingPerson, calls,
                   apiError, caught, nextId>>

\* a failed create or update after which the request is issued again
UpsertFail_retries(r) ==
    /\ r \in Runs
    /\ pc[r] = "UpsertWait"
    /\ \E req \in inflight[r] :
        /\ req.method # "get"
        /\ calls' = [calls EXCEPT ![r] = Append(@, req)]
    /\ UNCHANGED <<env, pc, nameMapping, nameValue, personData, existingPerson,
                   inflight, steps, apiError, caught, outcome, persons, nextId>>

\* the create or update request fails: createOrUpdatePerson throws and the
\* catch of syncPdPerson rejects the promise
UpsertFail(r) ==
    /\ r \in Runs
    /\ pc[r] = "UpsertWait"
    /\ \E req \in inflight[r], error \in AxiosErrors :
        /\ req.method # "get"
        /\ inflight' = [inflight EXCEPT ![r] = @ \ {req}]
        /\ apiError' = [apiError EXCEPT ![r] = error]
        /\ Throw(r, PlainError(
               formatError(UpsertContext(OptionalId(existingPerson[r])), error)))
    /\ steps' = [steps EXCEPT ![r] = Append(@, "Failed")]
    /\ UNCHANGED <<env, nameMapping, nameValue, personData, existingPerson, calls,
                   persons, nextId>>

Next ==
    \E r \in RunIds :
        \/ Start(r)
        \/ LookupReturn(r)
        \/ LookupFail(r)
        \/ CreateReturn(r)
        \/ UpdateReturn(r)
        \/ UpsertFail(r)

Spec == Init /\ [][Next]_vars

SpecConcurrent == InitConcurrent /\ [][Next]_vars

\* a run that is called only when no other run is under way
StartSequential(r) ==
    /\ \A q \in Runs \ {r} : pc[q] \in {"Start", "Done", "Failed"}
    /\ Start(r)

NextSequential ==
    \E r \in RunIds :
        \/ StartSequential(r)
        \/ LookupReturn(r)
        \/ LookupFail(r)
        \/ CreateReturn(r)
        \/ UpdateReturn(r)
        \/ UpsertFail(r)

\* runs one after another, against a remote system without records
SpecSequential == InitConcurrent /\ [][NextSequential]_vars

\* the event loop runs what is ready, and every request gets its response or
\* its error
SpecLive == Init /\ [][Next]_vars /\ WF_vars(Next)

\* ------------------------------------------------------- properties
IsUpsert(req) == req.method \in {"put", "post"}
UpsertCalls(r) == SelectSeq(calls[r], IsUpsert)
LookupCalls(r) == SelectSeq(calls[r], LAMBDA req : req.method = "get")
HasNameMapping == \E i \in 1..Len(mappings) : mappings[i].pipedriveKey = "name"

\* C1: in a run that has reached the Upsert step, a lookup that returned a
\* record is followed by a PUT addressed to that record's identifier (0
\* included), and a lookup that returned null by a POST without identifier.
C1_UpsertFollowsLookup ==
    \A r \in Runs :
        pc[r] \in {"UpsertWait", "Done"} =>
            /\ Len(UpsertCalls(r)) = 1
            /\ LET call == UpsertCalls(r)[1]
               IN  IF IsNull(existingPerson[r])
                   THEN call.method = "post" /\ "id" \notin DOMAIN call
                   ELSE /\ call.method = "put"
                        /\ "id" \in DOMAIN call
                        /\ call.id = existingPerson[r].id

\* C2: without a mapping entry for "name" a run that has started has failed,
\* and it has issued neither a lookup nor a create/update call.
C2_NoNameMappingFailsBeforeNetwork ==
    ~HasNameMapping =>
        \A r \in Runs :
            /\ calls[r] = <<>>
            /\ inflight[r] = {}
            /\ pc[r] \in {"Start", "Failed"}
            /\ pc[r] = "Failed" => outcome[r].kind = "rejected"

C2_Witness ==
    /\ ~HasNameMapping
    /\ Len(mappings) > 0
    /\ \E r \in Runs : pc[r] = "Failed" /\ calls[r] = <<>>

StepOrder ==
    <<"ValidateMapping", "ValidateIdentityValue", "BuildPayload", "Lookup", "Upsert", "Done">>

IsPrefix(s, t) == Len(s) <= Len(t) /\ \A i \in 1..Len(s) : s[i] = t[i]

\* C3: the steps a run has executed are a prefix of ValidateMapping,
\* ValidateIdentityValue, BuildPayload, Lookup, Upsert, Done, followed by
\* Failed when a step failed; once a run has failed it executes no further
\* step and issues no further call.
C3_StepsInOrder ==
    /\ [](\A r \in Runs :
            \/ IsPrefix(steps[r], StepOrder)
            \/ /\ Len(steps[r]) > 1
               /\ steps[r][Len(steps[r])] = "Failed"
               /\ IsPrefix(SubSeq(steps[r], 1, Len(steps[r]) - 1), StepOrder)
               /\ pc[r] = "Failed"
               /\ outcome[r].kind = "rejected")
    /\ [][\A r \in Runs :
            (pc[r] = "Failed" \/ outcome[r].kind = "rejected") =>
                /\ pc'[r] = "Failed"
                /\ calls'[r] = calls[r]
                /\ steps'[r] = steps[r]
                /\ inflight'[r] = {}]_vars

C3_Witness ==
    \E r \in Runs :
        /\ steps[r] = <<"ValidateMapping", "ValidateIdentityValue", "BuildPayload",
                        "Lookup", "Failed">>
        /\ Len(calls[r]) = 1
        /\ calls[r][1].method = "get"

\* the entry syncPdPerson takes for the identifying field
FirstNameEntry == mappings[CHOOSE i \in 1..Len(mappings) :
                              /\ mappings[i].pipedriveKey = "name"
                              /\ \A j \in 1..(i - 1) : mappings[j].pipedriveKey # "name"]

\* C4: when the source path of the "name" entry resolves to an absent value
\* or to a value that is not a string, the run fails at identity validation
\* without any call; when it resolves to a non-empty string the validation
\* passes and that string is the term of the lookup.
C4_IdentityValidation ==
    HasNameMapping =>
        LET value == get(inputData, FirstNameEntry.inputKey)
        IN  \A r \in Runs :
              /\ value.t # "string" =>
                    /\ pc[r] \in {"Start", "Failed"}
                    /\ calls[r] = <<>>
                    /\ pc[r] = "Failed" =>
                          steps[r] = <<"ValidateMapping", "ValidateIdentityValue", "Failed">>
              /\ (value.t = "string" /\ value.v # "") =>
                    /\ steps[r] # <<"ValidateMapping", "ValidateIdentityValue", "Failed">>
                    /\ \A i \in 1..Len(calls[r]) :
                          calls[r][i].method = "get" => calls[r][i].term = value.v

C4_Witness ==
    /\ HasNameMapping
    /\ \E r \in Runs :
        /\ Len(LookupCalls(r)) = 1
        /\ LookupCalls(r)[1].term = "Jane"
        /\ get(inputData, FirstNameEntry.inputKey) = Str("Jane")

PayloadBuilt(r) == Len(steps[r]) >= 3 /\ steps[r][3] = "BuildPayload"
ResolvedAt(i) == get(inputData, mappings[i].inputKey)
IsAbsent(value) == value.t \in {"undefined", "null"}
EntriesFor(key) == {i \in 1..Len(mappings) : mappings[i].pipedriveKey = key}
PresentEntriesFor(key) == {i \in EntriesFor(key) : ~IsAbsent(ResolvedAt(i))}
Max(S) == CHOOSE x \in S : \A y \in S : y <= x

\* the value a payload field carries, inside its wrapper if it has one
Carried(field) == IF field.kind = "list" THEN field.items[1].value ELSE field.value

NoNullField(r) == \A k \in DOMAIN personData[r] : ~IsAbsent(Carried(personData[r][k]))

\* C5 as stated: every entry whose source resolves to undefined or null
\* leaves the payload without a key for its target field, and no field of
\* the payload is null.
C5_AbsentEntryOmitsKey ==
    \A r \in Runs :
        PayloadBuilt(r) =>
            /\ \A i \in 1..Len(mappings) :
                  IsAbsent(ResolvedAt(i)) =>
                      mappings[i].pipedriveKey \notin DOMAIN personData[r]
            /\ NoNullField(r)

\* C5 as amended: an entry whose source resolves to undefined or null leaves
\* the payload without a key for its target field unless another entry for
\* that field resolves to a value; no field of the payload is null.
C5_AbsentEntriesOmitKey ==
    \A r \in Runs :
        PayloadBuilt(r) =>
            /\ \A i \in 1..Len(mappings) :
                  (IsAbsent(ResolvedAt(i)) /\ PresentEntriesFor(mappings[i].pipedriveKey) = {})
                      => mappings[i].pipedriveKey \notin DOMAIN personData[r]
            /\ NoNullField(r)

C5_Witness ==
    \E r \in Runs :
        /\ PayloadBuilt(r)
        /\ \E i \in 1..Len(mappings) :
              /\ ResolvedAt(i) = Null
              /\ mappings[i].pipedriveKey \notin DOMAIN personData[r]
        /\ DOMAIN personData[r] # {}

\* C6 as stated: a payload field holds the value derived from the last
\* mapping entry for that field.
C6_LastEntryWins ==
    \A r \in Runs :
        PayloadBuilt(r) =>
            \A key \in DOMAIN personData[r] :
                /\ EntriesFor(key) # {}
                /\ personData[r][key] = Shaped(key, ResolvedAt(Max(EntriesFor(key))))

\* C6 as amended: a payload field holds the value derived from the last
\* mapping entry for that field whose source resolves to a value; entries
\* that resolve to undefined or null overwrite nothing.
C6_LastPresentEntryWins ==
    \A r \in Runs :
        PayloadBuilt(r) =>
            \A key \in DOMAIN personData[r] :
                /\ PresentEntriesFor(key) # {}
                /\ personData[r][key] = Shaped(key, ResolvedAt(Max(PresentEntriesFor(key))))

C6_Witness ==
    \E r \in Runs :
        /\ PayloadBuilt(r)
        /\ \E i, j \in 1..Len(mappings) :
              /\ i < j
              /\ mappings[i].pipedriveKey = mappings[j].pipedriveKey
              /\ ~IsAbsent(ResolvedAt(i)) /\ ~IsAbsent(ResolvedAt(j))
              /\ ResolvedAt(i) # ResolvedAt(j)
              /\ Carried(personData[r][mappings[j].pipedriveKey]) = ResolvedAt(j)

\* what the shaping rule prescribes for a field
Expected(key, v) ==
    CASE key = "email" ->
            [kind |-> "list", items |-> <<[value |-> v, primary |-> TRUE, label |-> "work"]>>]
      [] key = "phone" ->
            [kind |-> "list", items |-> <<[value |-> v, primary |-> TRUE, label |-> "home"]>>]
      [] OTHER -> [kind |-> "plain", value |-> v]

\* C7: the entry for "email" (resp. "phone") that gives the payload field its
\* value v makes it the one-element list <<{value: v, primary: true, label:
\* "work"}>> (resp. "home"); for any other field the payload holds v itself.
\* This holds of the payload right after each entry is processed and of the
\* payload the run sends.
C7_SpecialFieldShape ==
    /\ \A i \in 1..Len(mappings) :
          ~IsAbsent(ResolvedAt(i)) =>
              reduce(SubSeq(mappings, 1, i), EmptyPayload, inputData)[mappings[i].pipedriveKey]
                  = Expected(mappings[i].pipedriveKey, ResolvedAt(i))
    /\ \A r \in Runs :
          PayloadBuilt(r) =>
              \A i \in 1..Len(mappings) :
                  LET key == mappings[i].pipedriveKey
                  IN  (PresentEntriesFor(key) # {} /\ i = Max(PresentEntriesFor(key))) =>
                          /\ key \in DOMAIN personData[r]
                          /\ personData[r][key] = Expected(key, ResolvedAt(i))

C7_Witness ==
    \E r \in Runs :
        /\ Len(UpsertCalls(r)) = 1
        /\ "email" \in DOMAIN UpsertCalls(r)[1].data
        /\ UpsertCalls(r)[1].data["email"] =
              [kind |-> "list",
               items |-> <<[value |-> Str("jane@x.com"), primary |-> TRUE, label |-> "work"]>>]

\* C8: nothing keeps two runs from both creating: whenever two runs whose
\* lookups both returned null have both finished, each has issued a create
\* and the remote system holds two distinct records with the same name.
C8_ConcurrentRunsBothCreate ==
    \A r, q \in Runs :
        (/\ r # q
         /\ pc[r] = "Done" /\ pc[q] = "Done"
         /\ IsNull(existingPerson[r]) /\ IsNull(existingPerson[q])) =>
            /\ UpsertCalls(r)[1].method = "post"
            /\ UpsertCalls(q)[1].method = "post"
            /\ \E i, j \in 1..Len(persons) :
                  /\ i # j
                  /\ persons[i].id = outcome[r].person.id
                  /\ persons[j].id = outcome[q].person.id
                  /\ persons[i].name = persons[j].name

\* two runs for the name "Jane" against a remote system that held no record:
\* both created, and the remote system holds two records named "Jane"
C8_Witness ==
    \E r, q \in Runs :
        /\ r # q
        /\ pc[r] = "Done" /\ pc[q] = "Done"
        /\ nameValue[r] = Str("Jane") /\ nameValue[q] = Str("Jane")
        /\ UpsertCalls(r)[1].method = "post"
        /\ UpsertCalls(q)[1].method = "post"
        /\ Len(persons) = 2
        /\ persons[1].name = Str("Jane") /\ persons[2].name = Str("Jane")
        /\ persons[1].id # persons[2].id

\* C9: a run has at most one call in flight, issues at most one lookup call
\* and at most one create/update call, and issues the create/update call only
\* once the lookup call has returned.
C9_OneCallAtATime ==
    \A r \in Runs :
        /\ Cardinality(inflight[r]) <= 1
        /\ Len(LookupCalls(r)) <= 1
        /\ Len(UpsertCalls(r)) <= 1
        /\ Len(UpsertCalls(r)) = 1 =>
              /\ Len(calls[r]) = 2
              /\ calls[r][1].method = "get"
              /\ calls[r][1] \notin inflight[r]
              /\ steps[r][4] = "Lookup"
        /\ pc[r] \in {"Failed", "Done"} => inflight[r] = {}

C9_Witness ==
    \E r \in Runs :
        /\ r \in Runs
    /\ pc[r] = "UpsertWait"
        /\ Cardinality(inflight[r]) = 1
        /\ Len(calls[r]) = 2

FailedStep(r) == steps[r][Len(steps[r]) - 1]
Failed(r) == pc[r] = "Failed"

\* C10 as stated: the message of a failed run is "<context>: <inner>", with
\* the original message as inner and a context that tells the failed step:
\* runs that failed at different steps carry different contexts.
C10_ContextNamesStep ==
    /\ \A r \in Runs :
          Failed(r) =>
              /\ Len(outcome[r].message) > 2
              /\ outcome[r].message[2] = ": "
              /\ SubSeq(outcome[r].message, 3, Len(outcome[r].message)) = caught[r].message
    /\ \A r, q \in Runs :
          (Failed(r) /\ Failed(q) /\ FailedStep(r) # FailedStep(q)) =>
              outcome[r].message[1] # outcome[q].message[1]

\* C10 as amended: the message of a failed run is "Error in syncPdPerson:
\* <inner>", with the original message as inner; the context is this one
\* text whatever step failed.
C10_FixedContextKeepsInner ==
    \A r \in Runs :
        Failed(r) =>
            /\ outcome[r].kind = "rejected"
            /\ caught[r].message # <<>>
            /\ outcome[r].message = <<"Error in syncPdPerson", ": ">> \o caught[r].message

C10_Witness ==
    \E r, q \in Runs :
        /\ Failed(r) /\ FailedStep(r) = "Lookup"
        /\ Failed(q) /\ FailedStep(q) = "Upsert"
        /\ outcome[q].message =
              <<"Error in syncPdPerson", ": ", "Failed to create person", ": ", "Network Error">>

Ended(r) == pc[r] \in {"Done", "Failed"}

\* C11: provided every remote call returns a response or an error, every run
\* ends, either Done with the record of the create/update response, after a
\* lookup and a create/update that both succeeded, or Failed with a message
\* and no record; until then nothing is returned.
C11_EndsDoneOrFailed ==
    /\ [](\A r \in Runs :
            /\ pc[r] = "Done" =>
                  /\ outcome[r].kind = "resolved"
                  /\ \E i \in 1..Len(persons) : persons[i] = outcome[r].person
                  /\ steps[r] = StepOrder
                  /\ Len(calls[r]) = 2
                  /\ calls[r][1].method = "get" /\ IsUpsert(calls[r][2])
                  /\ apiError[r] = NoError /\ caught[r] = NoError
            /\ pc[r] = "Failed" =>
                  /\ outcome[r].kind = "rejected"
                  /\ outcome[r].message # <<>>
                  /\ DOMAIN outcome[r] = {"kind", "message"}
            /\ ~Ended(r) => outcome[r] = Pending)
    /\ <>[](\A r \in Runs : Ended(r) /\ inflight[r] = {})

C11_Witness ==
    \E r \in Runs :
        /\ pc[r] = "Done"
        /\ outcome[r].kind = "resolved"
        /\ outcome[r].person = Person(100, Str("Jane"))
        /\ persons = <<Person(100, Str("Jane"))>>

\* C12: the message of a failed create/update call says "update" exactly when
\* the failed request was a PUT and "create" exactly when it was a POST.
C12_MessageNamesOperation ==
    \A r \in Runs :
        (Failed(r) /\ FailedStep(r) = "Upsert") =>
            LET call == UpsertCalls(r)[1]
                context == caught[r].message[1]
            IN  /\ context \in {"Failed to update person", "Failed to create person"}
                /\ context = "Failed to update person" <=> call.method = "put"
                /\ context = "Failed to create person" <=> call.method = "post"

C12_Witness ==
    \E r \in Runs :
        /\ Failed(r) /\ FailedStep(r) = "Upsert"
        /\ UpsertCalls(r)[1].method = "put"
        /\ UpsertCalls(r)[1].id = 42
        /\ caught[r].message = <<"Failed to update person", ": ", "Unauthorized">>

\* C13: runs with the same input and mapping table build the same payload
\* and send the same payload, whether the request is a create or an update.
C13_SamePayload ==
    \A r, q \in Runs :
        /\ (PayloadBuilt(r) /\ PayloadBuilt(q)) => personData[r] = personData[q]
        /\ (Len(UpsertCalls(r)) = 1 /\ Len(UpsertCalls(q)) = 1) =>
              /\ UpsertCalls(r)[1].data = UpsertCalls(q)[1].data
              /\ UpsertCalls(r)[1].data = personData[q]

C13_Witness ==
    \E r, q \in Runs :
        /\ Len(UpsertCalls(r)) = 1 /\ UpsertCalls(r)[1].method = "post"
        /\ Len(UpsertCalls(q)) = 1 /\ UpsertCalls(q)[1].method = "put"
        /\ UpsertCalls(r)[1].data = UpsertCalls(q)[1].data
        /\ DOMAIN UpsertCalls(q)[1].data = {"name", "email"}

\* the records of the remote system that bear the name a run searched for
Matches(r) == SelectSeq(persons, LAMBDA p : p.name = Str(calls[r][1].term))

\* C14: the lookup returns the first record of the item list, or null when
\* the list is empty; when several records match the name, the run updates
\* the first of them and creates nothing.
C14_LookupTakesFirst ==
    \A r \in Runs :
        pc[r] = "UpsertWait" =>
            /\ IF Len(Matches(r)) = 0
               THEN IsNull(existingPerson[r])
               ELSE ~IsNull(existingPerson[r]) /\ existingPerson[r] = Matches(r)[1]
            /\ Len(Matches(r)) > 1 =>
                  /\ UpsertCalls(r)[1].method = "put"
                  /\ UpsertCalls(r)[1].id = Matches(r)[1].id

\* the run failed because its search, create or update call failed
CallFailed(r) == Failed(r) /\ FailedStep(r) \in {"Lookup", "Upsert"} /\ calls[r] # <<>>

\* C15: the message of a failed search, create or update call ends with the
\* error text of the response body when there is one, else with the message
\* of the transport error when there is one, else with "Unknown API error".
C15_MessagePrecedence ==
    \A r \in Runs :
        CallFailed(r) =>
            LET message == caught[r].message
                text == SubSeq(message, 3, Len(message))
            IN  /\ apiError[r].axios
                /\ Len(message) > 2
                /\ message[1] \in {"Failed to search for person", "Failed to update person",
                                   "Failed to create person"}
                /\ message[2] = ": "
                /\ apiError[r].responseError # <<>> => text = apiError[r].responseError
                /\ (apiError[r].responseError = <<>> /\ apiError[r].message # <<>>) =>
                      text = apiError[r].message
                /\ (apiError[r].responseError = <<>> /\ apiError[r].message = <<>>) =>
                      text = <<"Unknown API error">>

C15_Witness ==
    \E r \in Runs :
        /\ CallFailed(r)
        /\ apiError[r].responseError = <<"Unauthorized">>
        /\ apiError[r].message = <<"Request failed with status code 401">>
        /\ caught[r].message = <<"Failed to search for person", ": ", "Unauthorized">>

ReachedLookup(r) == Len(steps[r]) >= 4 /\ steps[r][4] = "Lookup"

\* C16: without the API credential a run issues no call and fails at the
\* configuration test; with the credential and a company domain or a base
\* URL, a run that reaches the lookup passes the test and issues the search.
C16_ConfigurationCheck ==
    \A r \in Runs :
        /\ API_KEY = "" =>
              /\ calls[r] = <<>>
              /\ ReachedLookup(r) => Failed(r)
        /\ (API_KEY # "" /\ (COMPANY_DOMAIN # "" \/ ENV_BASE_URL # "")) =>
              (ReachedLookup(r) =>
                  /\ Len(calls[r]) >= 1
                  /\ calls[r][1].method = "get")

\* C17: in a run that has reached the Upsert step, the term of the lookup is
\* the value of the field "name" of the payload sent.
C17_SearchedNameIsWrittenName ==
    \A r \in Runs :
        Len(UpsertCalls(r)) = 1 =>
            /\ "name" \in DOMAIN UpsertCalls(r)[1].data
            /\ UpsertCalls(r)[1].data["name"] =
                  [kind |-> "plain", value |-> Str(LookupCalls(r)[1].term)]

DoneRuns == {r \in Runs : pc[r] = "Done"}

\* C18: after any number of runs executed one after another without a failed
\* call, starting from a remote system without records, one run has created
\* a record, every other run has updated that record, and the remote system
\* holds exactly one record with the identifying name.
C18_SequentialRunsKeepOneRecord ==
    ((\A r \in Runs : pc[r] \in {"Start", "Done"}) /\ DoneRuns # {}) =>
        \E c \in DoneRuns :
            /\ UpsertCalls(c)[1].method = "post"
            /\ \A r \in DoneRuns \ {c} :
                  /\ UpsertCalls(r)[1].method = "put"
                  /\ UpsertCalls(r)[1].id = outcome[c].person.id
            /\ Cardinality({i \in 1..Len(persons) : persons[i].name = nameValue[c]}) = 1

====
